---------------------------- MODULE Spec2Model ----------------------------
(***************************************************************************)
(* A model of FubonAccount (src/fubon_account.py): the order builder       *)
(* (create_order), the order normalizer (_create_finlab_order, get_orders) *)
(* and the order mutation engine (update_order, cancel_order), run by a     *)
(* single caller against the venue's order book; and the read side         *)
(* (get_cash, get_settlement, get_position, get_total_balance, get_stocks) *)
(* against the venue's accounting and market data services.                *)
(*                                                                         *)
(* Python floats that carry quantities are modelled exactly as integers:   *)
(* the float x is the integer x * FloatDen, so int(x) is a truncating      *)
(* division by FloatDen.  Optional values (None or a value) are sequences  *)
(* of length 0 or 1.  The wall clock is seconds since midnight.            *)
(***************************************************************************)
EXTENDS Integers, Sequences, FiniteSets, TLC

VARIABLES venue,    \* the venue's order book: order_no -> broker order record
          now,      \* the wall clock read by datetime.datetime.now()
          pc,       \* position of the caller: idle, inside a call, or done
          call,     \* the current API call with its arguments
          frame,    \* locals of update_order: the looked-up order and qty
          log,      \* venue requests issued by the current call
          result,   \* how the current call ended and the value it returns
          timestamp_for_get_position, \* when the last position query returned
          accounting, \* the venue's accounting data: inventories, bank, settlement
          marketdata, \* the venue's quotes: stock_id -> quote record
          callers     \* callers of get_position: where each is in its call

vars == <<venue, now, pc, call, frame, log, result,
          timestamp_for_get_position, accounting, marketdata, callers>>

\* the state the order-side operations leave alone
account_side == <<timestamp_for_get_position, accounting, marketdata, callers>>

---------------------------------------------------------------------------
(* Bounds and program constants *)

\* the seconds the clock may advance in the cooldown model
MaxElapse == 24

\* largest native quantity unit of an order in the book (shares for odd
\* lots, board lots of LotSize shares for whole lots)
MaxUnits == 2

\* divisor = 1 if is_odd_lot else 1000
LotSize == 1000

\* denominator of the exact representation of Python floats
FloatDen == 2 * LotSize

None == <<>>
Some(x) == <<x>>

\* int(x) of a float x = n / d, truncating toward zero
Trunc(n, d) == IF n >= 0 THEN n \div d ELSE -((-n) \div d)

\* seconds since midnight of h:m:s
T(h, m, s) == h * 3600 + m * 60 + s

---------------------------------------------------------------------------
(* Enumerations of fubon_neo.constant and finlab.online.enums *)

OddLotMarkets == {"IntradayOdd", "Odd", "EmgOdd"}
MarketTypes   == {"Common", "Fixing"} \cup OddLotMarkets
Outcomes      == {"ok", "fail", "none", "raise"}
Actions       == {"BUY", "SELL"}
Conditions    == {"CASH", "MARGIN_TRADING", "SHORT_SELLING", "DAY_TRADING_SHORT"}


---------------------------------------------------------------------------
(* Order normalizer: _create_finlab_order and its helpers *)

\* _map_order_action: BSAction -> Action; an unknown side raises
MapOrderAction(o) ==
    IF o.buy_sell = "Buy" THEN Some("BUY")
    ELSE IF o.buy_sell = "Sell" THEN Some("SELL")
    ELSE None

\* _map_order_condition: OrderType -> OrderCondition, CASH by default
MapOrderCondition(o) ==
    IF o.order_type = "Stock" THEN "CASH"
    ELSE IF o.order_type = "Margin" THEN "MARGIN_TRADING"
    ELSE IF o.order_type = "Short" THEN "SHORT_SELLING"
    ELSE IF o.order_type = "DayTrade" THEN "DAY_TRADING_SHORT"
    ELSE "CASH"

\* status by the broker's code alone
CodeStatus(status_code) ==
    IF status_code = 10 THEN "NEW"
    ELSE IF status_code = 30 THEN "CANCEL"
    ELSE IF status_code = 50 THEN "FILLED"
    ELSE IF status_code = 90 THEN "CANCEL"
    ELSE "NEW"

\* a plausible slip: the partial-fill override also applies to cancelled orders
ParseStatusNoCancelGuard(status_code, filled_qty, after_qty) ==
    IF filled_qty > 0 /\ filled_qty < after_qty
    THEN "PARTIALLY_FILLED"
    ELSE CodeStatus(status_code)

\* status of an order from the broker's (status, filled_qty, after_qty)
ParseStatus(status_code, filled_qty, after_qty) ==
    IF filled_qty > 0 /\ filled_qty < after_qty
       /\ CodeStatus(status_code) # "CANCEL"
    THEN "PARTIALLY_FILLED"
    ELSE CodeStatus(status_code)

\* a plausible slip: the regular session is listed with the odd-lot sessions
IsOddLotIncludingCommon(market_type) == market_type \in OddLotMarkets \cup {"Common"}

\* is_odd_lot = market_type in [IntradayOdd, Odd, EmgOdd]
IsOddLot(market_type) == market_type \in OddLotMarkets

\* a plausible slip: every quantity is taken to be in shares of a board lot
DivisorAlwaysLot(market_type) == LotSize

\* divisor = 1 if is_odd_lot else 1000
Divisor(market_type) == IF IsOddLot(market_type) THEN 1 ELSE LotSize

\* the fields of a broker order record that are read through float()
NumericFields == {"price", "filled_qty", "after_qty"}

\* float() of a value that is no number raises, and the handler of
\* _create_finlab_order logs the fault and raises it again
NormalizerRaises(o) == o.malformed # {}

\* the finlab Order built from a broker order record; quantities are floats
CreateFinlabOrder(o) ==
    LET mapped == MapOrderAction(o) IN
    [ order_id        |-> o.order_no,
      stock_id        |-> o.stock_no,
      action          |-> IF mapped = None THEN "BUY" ELSE mapped[1],
      price           |-> IF o.price = None THEN 0 ELSE o.price[1],
      quantity        |-> (o.after_qty * FloatDen) \div Divisor(o.market_type),
      filled_quantity |-> (o.filled_qty * FloatDen) \div Divisor(o.market_type),
      status          |-> ParseStatus(o.status, o.filled_qty, o.after_qty),
      order_condition |-> IF mapped = None THEN "CASH" ELSE MapOrderCondition(o),
      org_order       |-> o ]

\* a plausible slip: the records are normalized whatever the query answered
GetOrdersResultIgnoringOutcome(book, outcome) ==
    [n \in {m \in DOMAIN book : ~NormalizerRaises(book[m])} |->
         CreateFinlabOrder(book[n])]

\* get_orders: {} unless the query succeeds, else order_no -> finlab Order
\* for the records the normalizer did not raise on
GetOrdersResult(book, outcome) ==
    IF outcome # "ok"
    THEN [n \in {} |-> CreateFinlabOrder(book[n])]
    ELSE [n \in {m \in DOMAIN book : ~NormalizerRaises(book[m])} |->
              CreateFinlabOrder(book[n])]

---------------------------------------------------------------------------
(* Order builder: create_order *)

\* datetime.time(now.hour, now.minute), as minutes since midnight
HourMinute(t) == (t \div 3600) * 60 + ((t % 3600) \div 60)

\* datetime.time(h, m), as minutes since midnight
TimeOf(h, m) == h * 60 + m

\* a plausible slip: the windows include their opening minute
MarketTypeForInclusive(odd_lot, t) ==
    IF TimeOf(14, 0) <= HourMinute(t) /\ HourMinute(t) < TimeOf(14, 30) /\ ~odd_lot
    THEN "Fixing"
    ELSE IF TimeOf(13, 40) <= HourMinute(t) /\ HourMinute(t) < TimeOf(14, 30) /\ odd_lot
    THEN "Odd"
    ELSE IF odd_lot THEN "IntradayOdd" ELSE "Common"

\* market (session) type of a new order placed at wall-clock time t
MarketTypeFor(odd_lot, t) ==
    IF TimeOf(14, 0) < HourMinute(t) /\ HourMinute(t) < TimeOf(14, 30) /\ ~odd_lot
    THEN "Fixing"
    ELSE IF TimeOf(13, 40) < HourMinute(t) /\ HourMinute(t) < TimeOf(14, 30) /\ odd_lot
    THEN "Odd"
    ELSE IF odd_lot THEN "IntradayOdd" ELSE "Common"

\* a plausible slip: the two flag checks in the other order (market_order last)
PriceTypeForMarketLast(action, market_order, best_price_limit) ==
    LET p1 == IF best_price_limit
              THEN (IF action = "BUY" THEN "LimitDown"
                    ELSE IF action = "SELL" THEN "LimitUp" ELSE "Limit")
              ELSE "Limit"
    IN  IF market_order
        THEN (IF action = "BUY" THEN "LimitUp"
              ELSE IF action = "SELL" THEN "LimitDown" ELSE p1)
        ELSE p1

\* price type: Limit, then the market_order check, then best_price_limit
PriceTypeFor(action, market_order, best_price_limit) ==
    LET p1 == IF market_order
              THEN (IF action = "BUY" THEN "LimitUp"
                    ELSE IF action = "SELL" THEN "LimitDown" ELSE "Limit")
              ELSE "Limit"
    IN  IF best_price_limit
        THEN (IF action = "BUY" THEN "LimitDown"
              ELSE IF action = "SELL" THEN "LimitUp" ELSE p1)
        ELSE p1

\* price of the request: cleared by either flag, else str(price)
PriceFor(price, market_order, best_price_limit) ==
    IF market_order \/ best_price_limit THEN None ELSE price

\* OrderCondition -> OrderType, Stock by default
OrderTypeFor(order_cond) ==
    IF order_cond = "MARGIN_TRADING" THEN "Margin"
    ELSE IF order_cond = "SHORT_SELLING" THEN "Short"
    ELSE IF order_cond = "DAY_TRADING_SHORT" THEN "DayTrade"
    ELSE "Stock"

\* qty = int(quantity) if odd_lot else int(quantity * 1000)
NativeQty(quantity, odd_lot) ==
    IF odd_lot THEN Trunc(quantity, FloatDen)
    ELSE Trunc(quantity * LotSize, FloatDen)

\* a plausible slip: zero passes the validation
InvalidQuantityNegativeOnly(quantity) == quantity < 0

\* if quantity <= 0: raise ValueError
InvalidQuantity(quantity) == quantity <= 0

\* the FBOrder that create_order builds at wall-clock time t
BuildOrder(args, t) ==
    [ buy_sell      |-> IF args.action = "BUY" THEN "Buy" ELSE "Sell",
      symbol        |-> args.stock_id,
      price         |-> PriceFor(args.price, args.market_order, args.best_price_limit),
      quantity      |-> NativeQty(args.quantity, args.odd_lot),
      market_type   |-> MarketTypeFor(args.odd_lot, t),
      price_type    |-> PriceTypeFor(args.action, args.market_order,
                                     args.best_price_limit),
      time_in_force |-> "ROD",
      order_type    |-> OrderTypeFor(args.order_cond) ]

---------------------------------------------------------------------------
(* Requests sent to the venue.  site names the place in the code that      *)
(* issues the request: "create_order", "get_orders", or inside             *)
(* update_order "lookup", "price" (the price mutation) and "qty" (the      *)
(* quantity mutation); outcome is the venue's answer to it.                *)

\* sdk.stock.get_order_results(account)
QueryReq(site, outcome) ==
    [op |-> "get_order_results", site |-> site, outcome |-> outcome,
     record |-> None, value |-> None, order |-> None]

\* sdk.stock.modify_quantity(account, make_modify_quantity_obj(record, qty))
ModifyQuantityReq(site, record, qty, outcome) ==
    [op |-> "modify_quantity", site |-> site, outcome |-> outcome,
     record |-> Some(record), value |-> Some(qty), order |-> None]

\* sdk.stock.modify_price(account, make_modify_price_obj(record, str(price)))
ModifyPriceReq(site, record, price, outcome) ==
    [op |-> "modify_price", site |-> site, outcome |-> outcome,
     record |-> Some(record), value |-> Some(price), order |-> None]

\* sdk.stock.place_order(account, order)
PlaceOrderReq(site, order, outcome) ==
    [op |-> "place_order", site |-> site, outcome |-> outcome,
     record |-> None, value |-> None, order |-> Some(order)]

\* sdk.stock.cancel_order(account, record)
CancelOrderReq(site, record, outcome) ==
    [op |-> "cancel_order", site |-> site, outcome |-> outcome,
     record |-> Some(record), value |-> None, order |-> None]

\* sdk.accounting.bank_remain(account)
BankRemainReq(site, outcome) ==
    [op |-> "bank_remain", site |-> site, outcome |-> outcome,
     record |-> None, value |-> None, order |-> None]

\* sdk.accounting.query_settlement(account, window)
SettlementReq(site, window, outcome) ==
    [op |-> "query_settlement", site |-> site, outcome |-> outcome,
     record |-> None, value |-> Some(window), order |-> None]

\* sdk.accounting.inventories(account)
InventoriesReq(site, outcome) ==
    [op |-> "inventories", site |-> site, outcome |-> outcome,
     record |-> None, value |-> None, order |-> None]

\* sdk.marketdata.rest_client.stock.intraday.quote(symbol=stock_id)
QuoteReq(site, stock_id, outcome) ==
    [op |-> "quote", site |-> site, outcome |-> outcome,
     record |-> None, value |-> Some(stock_id), order |-> None]

---------------------------------------------------------------------------
(* The venue.  The book holds the orders that exist when a behaviour       *)
(* starts; an order placed during the behaviour is seen in the log and in  *)
(* the returned order number.                                              *)

\* the order number the venue returns for an accepted order
NewOrderNo(book) == Cardinality(DOMAIN book) + 1

\* the venue's quantity-modify: the new total includes the filled part
VenueModifyQuantity(book, no, qty) == [book EXCEPT ![no].after_qty = qty]

\* the venue's price-modify
VenueModifyPrice(book, no, price) == [book EXCEPT ![no].price = Some(price)]

\* the venue's cancel: the order is reported with code 30 from then on
VenueCancel(book, no) == [book EXCEPT ![no].status = 30]

\* the unfilled quantity of an order that is still working at the venue
Remaining(o) == IF o.after_qty > o.filled_qty THEN o.after_qty - o.filled_qty ELSE 0

---------------------------------------------------------------------------
(* create_order as a whole: validation, build, place, and its return *)

CreateOrderRun(args, t, outcome, site, book) ==
    IF InvalidQuantity(args.quantity)
    THEN [raised |-> TRUE, reqs |-> <<>>, ret |-> None]
    ELSE [raised |-> FALSE,
          reqs   |-> <<PlaceOrderReq(site, BuildOrder(args, t), outcome)>>,
          ret    |-> IF outcome = "ok" THEN Some(NewOrderNo(book)) ELSE None]

---------------------------------------------------------------------------
(* update_order: control flow and the values it computes *)

\* a plausible slip: the quantity mutation is run before the price mutation
NextAxisQuantityFirst(at, price, quantity) ==
    IF at = "lookup"
    THEN (IF quantity # None THEN "uo_qty"
          ELSE IF price # None THEN "uo_price" ELSE "done")
    ELSE IF at = "qty"
    THEN (IF price # None THEN "uo_price" ELSE "done")
    ELSE "done"

\* where update_order goes after the lookup, the price axis, the quantity axis
NextAxis(at, price, quantity) ==
    IF at = "lookup"
    THEN (IF price # None THEN "uo_price"
          ELSE IF quantity # None THEN "uo_qty" ELSE "done")
    ELSE IF at = "price"
    THEN (IF quantity # None THEN "uo_qty" ELSE "done")
    ELSE "done"

\* a plausible slip: the filled part is left out of the new total
NewQtyWithoutFilled(quantity, record) ==
    IF IsOddLot(record.market_type)
    THEN Trunc(quantity, FloatDen)
    ELSE Trunc(quantity * LotSize, FloatDen)

\* new_qty = int(quantity) + int(filled_qty), or int(quantity * 1000) + ...
NewQty(quantity, record) ==
    IF IsOddLot(record.market_type)
    THEN Trunc(quantity, FloatDen) + record.filled_qty
    ELSE Trunc(quantity * LotSize, FloatDen) + record.filled_qty

\* qty = float(org_qty) - float(filled_qty)
UnfilledQty(record) == record.after_qty - record.filled_qty

\* a plausible slip: the cancel passes the unfilled quantity as the new total
CancelTotalUnfilled(record) == UnfilledQty(record)

\* make_modify_quantity_obj(order_record, 0): the total that cancels
CancelTotal(record) == 0

\* the arguments of the create_order call that re-creates an odd-lot order
RecreateArgs(order, qty, price) ==
    [ action           |-> order.action,
      stock_id         |-> order.stock_id,
      quantity         |-> (qty * FloatDen) \div LotSize,
      price            |-> price,
      odd_lot          |-> TRUE,
      best_price_limit |-> FALSE,
      market_order     |-> FALSE,
      order_cond       |-> "CASH" ]

---------------------------------------------------------------------------
(* Inputs *)

Prices       == {10, 11}
StockIds     == {"2330"}
StatusCodes  == {10, 30, 50, 90, 99}
BuySells     == {"Buy", "Sell"}
OrderTypes   == {"Stock", "Margin", "Short", "DayTrade"}

\* float quantities a caller passes: -1.0, 0.0, 1.0, .. and two values with a
\* fractional part (0.0005 and 1.0005)
Floats == {k * FloatDen : k \in -1 .. MaxUnits} \cup {1, FloatDen + 1}

\* instants around the session windows, and one in regular hours
ClockSamples == { T(10, 30, 0),
                  T(13, 39, 59), T(13, 40, 0), T(13, 40, 30), T(13, 41, 0),
                  T(14, 0, 0), T(14, 0, 30), T(14, 1, 0),
                  T(14, 29, 59), T(14, 30, 0) }

\* a broker order record
OrderRecord(no, bs, ot, mt, st, after, filled) ==
    [ order_no    |-> no,
      stock_no    |-> "2330",
      buy_sell    |-> bs,
      order_type  |-> ot,
      market_type |-> mt,
      price       |-> Some(10),
      after_qty   |-> after,
      filled_qty  |-> filled,
      status      |-> st,
      can_cancel  |-> TRUE,
      malformed   |-> {} ]

\* working orders: 1..MaxUnits native units (shares, or board lots of
\* LotSize shares), of which any part is filled
WorkingRecords ==
    { r \in { OrderRecord(1, bs, ot, mt, 10, a * Divisor(mt), f * Divisor(mt)) :
                bs \in BuySells, ot \in OrderTypes, mt \in MarketTypes,
                a \in 1 .. MaxUnits, f \in 0 .. MaxUnits } :
        r.filled_qty <= r.after_qty }

\* any broker triple (status, filled_qty, after_qty)
AnyRecords ==
    { OrderRecord(1, bs, "Stock", mt, st, a * Divisor(mt), f * Divisor(mt)) :
        bs \in BuySells, mt \in MarketTypes, st \in StatusCodes,
        a \in 0 .. MaxUnits, f \in 0 .. MaxUnits }

\* whole-lot and odd-lot records of 1000 shares of which 300 are filled
PartLotRecords ==
    { OrderRecord(1, "Buy", "Stock", mt, st, LotSize, 300) :
        mt \in MarketTypes, st \in StatusCodes }

\* records in which one field read through float() holds no number
MalformedRecords ==
    { [OrderRecord(1, "Buy", "Stock", mt, st, LotSize, 0) EXCEPT !.malformed = {f}] :
        mt \in MarketTypes, st \in StatusCodes, f \in NumericFields }

BookOf(r) == [n \in {r.order_no} |-> r]

\* an inventory record of the venue: a holding of whole shares, with or
\* without an odd-lot part
Inventory(no, ot, whole, odd, mv) ==
    [ stock_no         |-> no,
      order_type       |-> ot,
      today_qty        |-> whole,
      odd              |-> odd,
      market_value     |-> mv,
      price            |-> 10,
      margin_amount    |-> 4,
      short_collateral |-> 3,
      guarantee_amount |-> 2 ]

\* the holdings of one instrument: 0..MaxUnits board lots, and no odd-lot
\* part, an empty one, or one of 500 shares
Holdings(no) ==
    { Inventory(no, ot, w * LotSize, odd, None) :
        ot \in OrderTypes, w \in 0 .. MaxUnits, odd \in {None, Some(0), Some(500)} }

\* the inventories of an account that holds one or two instruments
InventoryLists ==
    { <<a>> : a \in Holdings("2330") }
        \cup { <<a, b>> : a \in Holdings("2330"), b \in Holdings("2317") }

\* one detail of a settlement window
Detail(date, amount) == [settlement_date |-> date, total_settlement_amount |-> amount]

\* the data of a settlement window: none, or details of which one is dated
WindowData(amount) ==
    {None, Some(<<Detail(Some("2024/01/17"), Some(amount)), Detail(None, Some(1))>>)}

\* the accounting data of an account for the balance readers
Accountings ==
    { [ inventories |-> invs, bank_remain |-> bank,
        settlement  |-> [w \in {"3d", "0d"} |-> IF w = "3d" THEN d3 ELSE d0] ] :
        invs \in { <<Inventory("2330", ot, LotSize, None, mv)>> :
                       ot \in {"Stock", "Margin", "Short"},
                       mv \in {None, Some(50)} },
        bank \in {None, Some(700)},
        d3 \in WindowData(-30), d0 \in WindowData(20) }

\* one level of one side of a quote's book
Level(price, size) == [price |-> Some(price), size |-> Some(size)]

\* a quote record: a key-value map or an object; snake, camel and last say
\* which of its price fields it carries
Quote(kind, symbol, snake, camel, last, bids, asks, malformed) ==
    [ kind        |-> kind,
      symbol      |-> symbol,
      open_price  |-> IF snake THEN Some(98) ELSE None,
      high_price  |-> IF snake THEN Some(102) ELSE None,
      low_price   |-> IF snake THEN Some(96) ELSE None,
      close_price |-> IF snake THEN Some(100) ELSE None,
      openPrice   |-> IF camel THEN Some(98) ELSE None,
      highPrice   |-> IF camel THEN Some(102) ELSE None,
      lowPrice    |-> IF camel THEN Some(96) ELSE None,
      closePrice  |-> IF camel THEN Some(100) ELSE None,
      lastPrice   |-> IF last THEN Some(100) ELSE None,
      bids        |-> bids,
      asks        |-> asks,
      malformed   |-> malformed ]

\* the quote records the market data service may answer with
Quotes ==
    { Quote(kind, symbol, snake, camel, last, bids, asks, malformed) :
        kind \in {"dict", "object"}, symbol \in {None, Some("2330")},
        snake \in BOOLEAN, camel \in BOOLEAN, last \in BOOLEAN,
        bids \in {<<>>, <<Level(99, 1000)>>},
        asks \in {<<>>, <<Level(101, 1500)>>},
        malformed \in {{}, {"closePrice"}} }

\* the arguments a caller passes to create_order
Intents ==
    [ action           : Actions,
      stock_id         : StockIds,
      quantity         : Floats,
      price            : {None} \cup {Some(p) : p \in Prices},
      odd_lot          : BOOLEAN,
      best_price_limit : BOOLEAN,
      market_order     : BOOLEAN,
      order_cond       : Conditions ]

---------------------------------------------------------------------------
(* Position reader: get_position *)

\* if total_seconds < 10: time.sleep(10 - total_seconds)
CooldownSeconds == 10

\* datetime.datetime(2021, 1, 1), the timestamp of a new account object, on
\* the model's clock: long before any call
Epoch == 0

\* a plausible slip: the call never waits
SleepSecondsNone(total_seconds) == 0

\* the seconds get_position sleeps before it queries
SleepSeconds(total_seconds) ==
    IF total_seconds < CooldownSeconds
    THEN CooldownSeconds - total_seconds
    ELSE 0

\* order_type -> order_condition of a holding, CASH by default
InventoryCondition(inventory) ==
    IF inventory.order_type = "Margin" THEN "MARGIN_TRADING"
    ELSE IF inventory.order_type = "Short" THEN "SHORT_SELLING"
    ELSE IF inventory.order_type = "DayTrade" THEN "DAY_TRADING_SHORT"
    ELSE "CASH"

\* a plausible slip: the timestamp is recorded only after a successful query
StampAfterSuccessOnly(outcome, stamp, t) == IF outcome = "ok" THEN t ELSE stamp

\* timestamp_for_get_position after the position query ended with outcome at
\* time t: the assignment follows the query inside the try block, so it is
\* skipped only when the query raises
StampAfter(outcome, stamp, t) == IF outcome = "raise" THEN stamp ELSE t

\* a plausible slip: the balance reader restarts the cooldown as get_position
\* does after its inventory query
TimestampAfterBalanceRestarts(stamp, t) == t

\* timestamp_for_get_position after get_total_balance ran at time t: its
\* inventory query is sent directly and the timestamp is not assigned
TimestampAfterBalance(stamp, t) == stamp

\* a plausible slip: every holding is reported as a long position
QuantitySignAlwaysLong(order_condition) == 1

\* quantity_sign = -1 if order_condition == SHORT_SELLING else 1
QuantitySign(order_condition) ==
    IF order_condition = "SHORT_SELLING" THEN -1 ELSE 1

\* a plausible slip: the quantity of an entry is reported in shares
PositionEntryInShares(inventory, qty) ==
    [ stock_id        |-> inventory.stock_no,
      quantity        |-> (qty * FloatDen)
                              * QuantitySign(InventoryCondition(inventory)),
      order_condition |-> InventoryCondition(inventory) ]

\* one entry of the positions list; the quantity is the float qty / 1000 * sign
PositionEntry(inventory, qty) ==
    [ stock_id        |-> inventory.stock_no,
      quantity        |-> ((qty * FloatDen) \div LotSize)
                              * QuantitySign(InventoryCondition(inventory)),
      order_condition |-> InventoryCondition(inventory) ]

\* the entries one inventory record appends to positions: the odd-lot entry,
\* then the whole-lot entry; a record without stock_no or with a today_qty
\* that is zero is skipped before either
PositionEntries(inventory) ==
    IF inventory.stock_no = "" \/ inventory.today_qty = 0
    THEN <<>>
    ELSE (IF inventory.odd # None /\ inventory.odd[1] > 0
          THEN <<PositionEntry(inventory, inventory.odd[1])>> ELSE <<>>)
         \o
         (IF inventory.today_qty > 0
          THEN <<PositionEntry(inventory, inventory.today_qty)>> ELSE <<>>)

\* the positions list built over the inventories of a successful query
RECURSIVE PositionsOf(_)
PositionsOf(inventories) ==
    IF inventories = <<>> THEN <<>>
    ELSE PositionEntries(Head(inventories)) \o PositionsOf(Tail(inventories))

\* get_position's return value: Position({}) unless the query succeeds, else
\* Position.from_list(positions)
GetPositionResult(inventories, outcome) ==
    IF outcome # "ok" THEN <<>> ELSE PositionsOf(inventories)

---------------------------------------------------------------------------
(* Balance readers: get_cash, get_settlement, get_total_balance *)

\* the two windows get_settlement queries, in order
SettlementWindows == <<"3d", "0d">>

\* a plausible slip: the balance on record is returned whatever the venue
\* answered
GetCashResultIgnoringOutcome(bank_remain, outcome) ==
    IF bank_remain # None THEN bank_remain[1] ELSE 0

\* get_cash: float(available_balance) when the query succeeds with data,
\* else 0
GetCashResult(bank_remain, outcome) ==
    IF outcome = "ok" /\ bank_remain # None THEN bank_remain[1] ELSE 0

\* the total_settlement_amount of the details that carry a settlement date
RECURSIVE SumDetails(_)
SumDetails(details) ==
    IF details = <<>> THEN 0
    ELSE (IF Head(details).settlement_date # None
             /\ Head(details).total_settlement_amount # None
          THEN Head(details).total_settlement_amount[1] ELSE 0)
         + SumDetails(Tail(details))

\* what one window adds to total_settlement: nothing unless its query
\* succeeds with data
WindowAmount(data, outcome) ==
    IF outcome = "ok" /\ data # None THEN SumDetails(data[1]) ELSE 0

\* get_settlement: the sum over the windows; outcomes maps window -> outcome
GetSettlementResult(settlement, outcomes) ==
    WindowAmount(settlement["3d"], outcomes["3d"])
        + WindowAmount(settlement["0d"], outcomes["0d"])

\* position_market_value: market_value if the record has one, else
\* today_qty * price
MarketValue(inventory) ==
    IF inventory.market_value # None
    THEN inventory.market_value[1]
    ELSE inventory.today_qty * inventory.price

\* the amount an inventory record adds to the running total named what
Amount(inventory, what) ==
    IF what = "market_value" THEN MarketValue(inventory) ELSE inventory[what]

\* a running total of the loop: the sum of the amounts named what over the
\* inventories whose order_type is in types
RECURSIVE SumOver(_, _, _)
SumOver(inventories, types, what) ==
    IF inventories = <<>> THEN 0
    ELSE (IF Head(inventories).order_type \in types
          THEN Amount(Head(inventories), what) ELSE 0)
         + SumOver(Tail(inventories), types, what)

\* a plausible slip: the degraded balance leaves the settlements out
DegradedBalanceCashOnly(cash, settlements) == cash

\* return cash + settlements
DegradedBalance(cash, settlements) == cash + settlements

\* total_balance over the inventories of a successful query
FullBalance(cash, settlements, inventories) ==
    LET all == {"Stock", "Margin", "Short", "DayTrade"}
        total_market_value == SumOver(inventories, all, "market_value")
        margin_position_market_value == SumOver(inventories, {"Margin"}, "market_value")
        margin_amount == SumOver(inventories, {"Margin"}, "margin_amount")
        short_position_market_value == SumOver(inventories, {"Short"}, "market_value")
        short_collateral == SumOver(inventories, {"Short"}, "short_collateral")
        guarantee_amount == SumOver(inventories, {"Short"}, "guarantee_amount")
        cash_position_market_value ==
            total_market_value - margin_position_market_value
                - short_position_market_value
    IN  cash_position_market_value
        + (margin_position_market_value - margin_amount)
        + (short_collateral + guarantee_amount - short_position_market_value)
        + cash
        + settlements

\* get_total_balance: the degraded balance unless the inventory query
\* succeeds
GetTotalBalanceResult(acc, cash_outcome, outcomes, inventory_outcome) ==
    LET cash == GetCashResult(acc.bank_remain, cash_outcome)
        settlements == GetSettlementResult(acc.settlement, outcomes)
    IN  IF inventory_outcome # "ok"
        THEN DegradedBalance(cash, settlements)
        ELSE FullBalance(cash, settlements, acc.inventories)

---------------------------------------------------------------------------
(* Quote normalizer: _create_finlab_stock, get_stocks *)

\* float(field or 0) of an optional field
FloatOr0(field) == IF field = None THEN 0 ELSE field[1]

\* the field a price of a quote is read from: a key-value map is read by its
\* camelCase key; an object by its snake_case attribute, else by the fallback
\* attributes in turn
SourceField(quote, snake, fallbacks) ==
    IF quote.kind = "dict" THEN fallbacks[1]
    ELSE IF quote[snake] # None THEN snake
    ELSE IF quote[fallbacks[1]] # None \/ Len(fallbacks) = 1 THEN fallbacks[1]
    ELSE fallbacks[2]

\* float(field or 0) of the field a price is read from
QuotePrice(quote, snake, fallbacks) ==
    FloatOr0(quote[SourceField(quote, snake, fallbacks)])

\* the four prices of a quote with the fields each may be read from
PriceChains ==
    { <<"open_price", <<"openPrice">>>>, <<"high_price", <<"highPrice">>>>,
      <<"low_price", <<"lowPrice">>>>,
      <<"close_price", <<"closePrice", "lastPrice">>>> }

\* price and size of the first level of one side of the book, 0 without one
FirstLevel(levels) ==
    IF levels = <<>>
    THEN [price |-> 0, size |-> 0]
    ELSE [price |-> FloatOr0(levels[1].price), size |-> FloatOr0(levels[1].size)]

\* a plausible slip: an object without a symbol is given the empty id
StockIdOfNoFallback(quote, original_stock_id) ==
    IF quote.symbol # None THEN quote.symbol[1]
    ELSE IF quote.kind = "dict" THEN original_stock_id ELSE ""

\* the id of the normalized quote: the record's symbol, else the fallback id
StockIdOf(quote, original_stock_id) ==
    IF quote.symbol # None /\ quote.symbol[1] # ""
    THEN quote.symbol[1]
    ELSE original_stock_id

\* the Stock of the except branch
EmptyStock(original_stock_id) ==
    [ stock_id |-> original_stock_id, open |-> 0, high |-> 0, low |-> 0,
      close |-> 0, bid_price |-> 0, ask_price |-> 0,
      bid_volume |-> 0, ask_volume |-> 0 ]

\* float() of a field that is no number raises inside _create_finlab_stock
QuoteRaises(quote) ==
    \E chain \in PriceChains :
        LET field == SourceField(quote, chain[1], chain[2])
        IN  quote[field] # None /\ field \in quote.malformed

\* the finlab Stock built from a quote record
CreateFinlabStock(quote, original_stock_id) ==
    IF QuoteRaises(quote)
    THEN EmptyStock(original_stock_id)
    ELSE [ stock_id   |-> StockIdOf(quote, original_stock_id),
           open       |-> QuotePrice(quote, "open_price", <<"openPrice">>),
           high       |-> QuotePrice(quote, "high_price", <<"highPrice">>),
           low        |-> QuotePrice(quote, "low_price", <<"lowPrice">>),
           close      |-> QuotePrice(quote, "close_price",
                                     <<"closePrice", "lastPrice">>),
           bid_price  |-> FirstLevel(quote.bids).price,
           ask_price  |-> FirstLevel(quote.asks).price,
           bid_volume |-> FirstLevel(quote.bids).size,
           ask_volume |-> FirstLevel(quote.asks).size ]

\* get_stocks: stock_id -> Stock for the ids whose quote query answered
GetStocksResult(quotes, stock_ids, outcome) ==
    IF outcome # "ok"
    THEN [id \in {} |-> EmptyStock(id)]
    ELSE [id \in stock_ids \cap DOMAIN quotes |-> CreateFinlabStock(quotes[id], id)]

---------------------------------------------------------------------------
(* State *)

NoCall ==
    [ op |-> "none", order_id |-> 0, price |-> None, quantity |-> None,
      action |-> "BUY", stock_id |-> "", odd_lot |-> FALSE,
      best_price_limit |-> FALSE, market_order |-> FALSE, order_cond |-> "CASH" ]

NoFrame == [order |-> None, qty |-> 0]

NoResult == [state |-> "none", value |-> None]

Returned(v) == [state |-> "returned", value |-> v]

Raised == [state |-> "raised", value |-> None]

Running == [state |-> "running", value |-> None]

\* a caller of get_position that is not inside a call
IdleCaller ==
    [ pc |-> "idle", started |-> 0, seen |-> 0, wake |-> 0, issued |-> 0,
      outcome |-> "", result |-> NoResult ]

\* an account without holdings, bank data or settlements
NoAccounting ==
    [ inventories |-> <<>>,
      bank_remain |-> None,
      settlement  |-> [w \in {"3d", "0d"} |-> None] ]

NoQuotes == [id \in {} |-> None]

\* the order side of a new account object, over a book at a time
OrderSide(book, t) ==
    /\ venue = book
    /\ now = t
    /\ pc = "idle"
    /\ call = NoCall
    /\ frame = NoFrame
    /\ log = <<>>
    /\ result = NoResult

\* the account side of a new account object, over the venue's accounting
\* data and quotes, with n callers of get_position
AccountSide(acc, quotes, n) ==
    /\ timestamp_for_get_position = Epoch
    /\ accounting = acc
    /\ marketdata = quotes
    /\ callers = [c \in 1 .. n |-> IdleCaller]

\* the state of the account object between calls, over a book at a time
Fresh(book, t) ==
    /\ OrderSide(book, t)
    /\ AccountSide(NoAccounting, NoQuotes, 1)

\* a plausible slip: any answer of the venue counts as an accepted cancel, and
\* only an exception stops the re-creation
AcceptedUnlessRaised(outcome) == outcome # "raise"

\* the venue accepted the modify-to-zero of update_order's odd-lot branch: an
\* answer was returned and it reports success
Accepted(outcome) == outcome = "ok"

\* a plausible slip: the handler logs the venue's fault and raises it again
EndsReraising(outcome) == IF outcome = "raise" THEN Raised ELSE Returned(None)

\* how update_order and cancel_order end after the venue answered their last
\* request with outcome: every fault is caught and logged, and they return
Ends(outcome) == Returned(None)

---------------------------------------------------------------------------
(* Operations *)

\* time passes, up to the horizon of the model
Elapse ==
    /\ now < T(10, 30, 0) + MaxElapse
    /\ now' = now + 1
    /\ UNCHANGED <<venue, pc, call, frame, log, result>>
    /\ UNCHANGED account_side

\* the wall clock advances between calls
Tick ==
    /\ pc = "idle"
    /\ \E t \in ClockSamples : t > now /\ now' = t
    /\ UNCHANGED <<venue, pc, call, frame, log, result>>
    /\ UNCHANGED account_side

\* a call that is done hands its result to the caller
Return ==
    /\ pc = "done"
    /\ pc' = "idle"
    /\ call' = NoCall
    /\ frame' = NoFrame
    /\ log' = <<>>
    /\ result' = NoResult
    /\ UNCHANGED <<venue, now>>
    /\ UNCHANGED account_side

\* create_order(**intent), the venue answering with outcome; intent holds the
\* arguments action, stock_id, quantity, price, odd_lot, best_price_limit,
\* market_order and order_cond
CreateOrder(intent, outcome) ==
    /\ pc = "idle"
    /\ LET run == CreateOrderRun(intent, now, outcome, "create_order", venue)
       IN  /\ call' = [ op |-> "create_order", order_id |-> 0,
                        price |-> intent.price,
                        quantity |-> Some(intent.quantity),
                        action |-> intent.action,
                        stock_id |-> intent.stock_id,
                        odd_lot |-> intent.odd_lot,
                        best_price_limit |-> intent.best_price_limit,
                        market_order |-> intent.market_order,
                        order_cond |-> intent.order_cond ]
           /\ log' = run.reqs
           /\ result' = IF run.raised THEN Raised ELSE Returned(run.ret)
    /\ pc' = "done"
    /\ UNCHANGED <<venue, now, frame>>
    /\ UNCHANGED account_side

\* get_orders(), the venue answering the query with outcome
GetOrders(outcome) ==
    /\ pc = "idle"
    /\ call' = [NoCall EXCEPT !.op = "get_orders"]
    /\ log' = <<QueryReq("get_orders", outcome)>>
    /\ result' = Returned(Some(GetOrdersResult(venue, outcome)))
    /\ pc' = "done"
    /\ UNCHANGED <<venue, now, frame>>
    /\ UNCHANGED account_side

\* update_order(order_id, price, quantity) up to the lookup of the order
UpdateOrderBegin(order_id, price, quantity, outcome) ==
    /\ pc = "idle"
    /\ LET os    == GetOrdersResult(venue, outcome)
           found == order_id \in DOMAIN os
           next  == IF found THEN NextAxis("lookup", price, quantity) ELSE "done"
       IN  /\ call' = [NoCall EXCEPT !.op = "update_order", !.order_id = order_id,
                                     !.price = price, !.quantity = quantity]
           /\ log' = <<QueryReq("lookup", outcome)>>
           /\ frame' = IF found THEN [order |-> Some(os[order_id]), qty |-> 0]
                       ELSE NoFrame
           /\ pc' = next
           /\ result' = IF next = "done" THEN Returned(None) ELSE Running
    /\ UNCHANGED <<venue, now>>
    /\ UNCHANGED account_side

\* update_order, the price mutation: the cancel of an odd-lot order by a
\* quantity-modify to 0, or the price-modify of a whole-lot order
UpdateOrderPrice(outcome) ==
    /\ pc = "uo_price"
    /\ LET order == frame.order[1]
           rec   == order.org_order
           after == NextAxis("price", call.price, call.quantity)
       IN  IF IsOddLot(rec.market_type)
           THEN /\ log' = Append(log, ModifyQuantityReq("price", rec, CancelTotal(rec),
                                                         outcome))
                /\ IF Accepted(outcome)
                   THEN /\ venue' = VenueModifyQuantity(venue, rec.order_no,
                                                        CancelTotal(rec))
                        /\ frame' = [frame EXCEPT !.qty = UnfilledQty(rec)]
                        /\ pc' = IF UnfilledQty(rec) > 0 THEN "uo_recreate" ELSE after
                   ELSE /\ pc' = "done"
                        /\ UNCHANGED <<venue, frame>>
           ELSE /\ log' = Append(log, ModifyPriceReq("price", rec, call.price[1],
                                                      outcome))
                /\ venue' = IF outcome = "ok"
                            THEN VenueModifyPrice(venue, rec.order_no, call.price[1])
                            ELSE venue
                /\ pc' = after
                /\ UNCHANGED frame
    /\ result' = IF pc' = "done" THEN Ends(outcome) ELSE Running
    /\ UNCHANGED <<now, call>>
    /\ UNCHANGED account_side

\* update_order, the price mutation: the odd-lot order is created anew
UpdateOrderRecreate(outcome) ==
    /\ pc = "uo_recreate"
    /\ LET order == frame.order[1]
           run   == CreateOrderRun(RecreateArgs(order, frame.qty, call.price),
                                   now, outcome, "price", venue)
       IN  /\ log' = log \o run.reqs
           /\ pc' = IF run.raised THEN "done"
                    ELSE NextAxis("price", call.price, call.quantity)
    /\ result' = IF pc' = "done" THEN Returned(None) ELSE Running
    /\ UNCHANGED <<venue, now, call, frame>>
    /\ UNCHANGED account_side

\* update_order, the quantity mutation
UpdateOrderQty(outcome) ==
    /\ pc = "uo_qty"
    /\ LET rec     == frame.order[1].org_order
           new_qty == NewQty(call.quantity[1], rec)
       IN  /\ log' = Append(log, ModifyQuantityReq("qty", rec, new_qty, outcome))
           /\ venue' = IF outcome = "ok"
                       THEN VenueModifyQuantity(venue, rec.order_no, new_qty)
                       ELSE venue
    /\ pc' = NextAxis("qty", call.price, call.quantity)
    /\ result' = IF pc' = "done" THEN Ends(outcome) ELSE Running
    /\ UNCHANGED <<now, call, frame>>
    /\ UNCHANGED account_side

\* cancel_order(order_id): the lookup, answered with lookup, and the cancel
\* request of an order that is found and may be cancelled, answered with
\* outcome
CancelOrder(order_id, lookup, outcome) ==
    /\ pc = "idle"
    /\ LET os    == GetOrdersResult(venue, lookup)
           found == order_id \in DOMAIN os
           sent  == found /\ os[order_id].org_order.can_cancel
       IN  /\ log' = <<QueryReq("cancel_order", lookup)>> \o
                     (IF sent
                      THEN <<CancelOrderReq("cancel_order", os[order_id].org_order,
                                            outcome)>>
                      ELSE <<>>)
           /\ venue' = IF sent /\ outcome = "ok"
                       THEN VenueCancel(venue, order_id) ELSE venue
           /\ result' = IF sent THEN Ends(outcome) ELSE Returned(None)
    /\ call' = [NoCall EXCEPT !.op = "cancel_order", !.order_id = order_id]
    /\ pc' = "done"
    /\ UNCHANGED <<now, frame>>
    /\ UNCHANGED account_side

\* get_cash(), the venue answering the bank query with outcome
GetCash(outcome) ==
    /\ pc = "idle"
    /\ call' = [NoCall EXCEPT !.op = "get_cash"]
    /\ log' = <<BankRemainReq("get_cash", outcome)>>
    /\ result' = Returned(Some(GetCashResult(accounting.bank_remain, outcome)))
    /\ pc' = "done"
    /\ UNCHANGED <<venue, now, frame>>
    /\ UNCHANGED account_side

\* get_settlement(), the venue answering the query of each window
GetSettlement(outcomes) ==
    /\ pc = "idle"
    /\ call' = [NoCall EXCEPT !.op = "get_settlement"]
    /\ log' = [i \in 1 .. 2 |-> SettlementReq("get_settlement", SettlementWindows[i],
                                              outcomes[SettlementWindows[i]])]
    /\ result' = Returned(Some(GetSettlementResult(accounting.settlement, outcomes)))
    /\ pc' = "done"
    /\ UNCHANGED <<venue, now, frame>>
    /\ UNCHANGED account_side

\* get_total_balance(): get_cash, get_settlement and the inventory query;
\* the cooldown of get_position is neither awaited nor restarted
GetTotalBalance(cash_outcome, outcomes, inventory_outcome) ==
    /\ pc = "idle"
    /\ call' = [NoCall EXCEPT !.op = "get_total_balance"]
    /\ log' = <<BankRemainReq("get_total_balance", cash_outcome)>> \o
              [i \in 1 .. 2 |-> SettlementReq("get_total_balance", SettlementWindows[i],
                                              outcomes[SettlementWindows[i]])] \o
              <<InventoriesReq("get_total_balance", inventory_outcome)>>
    /\ result' = Returned(Some(GetTotalBalanceResult(accounting, cash_outcome,
                                                     outcomes, inventory_outcome)))
    /\ pc' = "done"
    /\ timestamp_for_get_position' =
           TimestampAfterBalance(timestamp_for_get_position, now)
    /\ UNCHANGED <<venue, now, frame>>
    /\ UNCHANGED <<accounting, marketdata, callers>>

\* get_stocks([stock_id]), the market data service answering with outcome
GetStocks(stock_id, outcome) ==
    /\ pc = "idle"
    /\ call' = [NoCall EXCEPT !.op = "get_stocks", !.stock_id = stock_id]
    /\ log' = <<QuoteReq("get_stocks", stock_id, outcome)>>
    /\ result' = Returned(Some(GetStocksResult(marketdata, {stock_id}, outcome)))
    /\ pc' = "done"
    /\ UNCHANGED <<venue, now, frame>>
    /\ UNCHANGED account_side

\* get_position() by caller c, up to the cooldown check: the clock and the
\* timestamp are read and the time to sleep is fixed
GetPositionBegin(c) ==
    /\ callers[c].pc = "idle"
    /\ callers' = [callers EXCEPT ![c] =
                     [IdleCaller EXCEPT
                        !.pc = "gp_sleep",
                        !.started = now,
                        !.seen = timestamp_for_get_position,
                        !.wake = now + SleepSeconds(now - timestamp_for_get_position),
                        !.result = Running]]
    /\ UNCHANGED <<venue, now, pc, call, frame, log, result>>
    /\ UNCHANGED <<timestamp_for_get_position, accounting, marketdata>>

\* get_position() by caller c: time.sleep is over and the query is sent
GetPositionIssue(c) ==
    /\ callers[c].pc = "gp_sleep"
    /\ now >= callers[c].wake
    /\ callers' = [callers EXCEPT ![c].pc = "gp_query", ![c].issued = now]
    /\ UNCHANGED <<venue, now, pc, call, frame, log, result>>
    /\ UNCHANGED <<timestamp_for_get_position, accounting, marketdata>>

\* get_position() by caller c: the venue answers; the timestamp is set when
\* the query returns a response or nothing, and the positions are built
GetPositionReply(c, outcome) ==
    /\ callers[c].pc = "gp_query"
    /\ timestamp_for_get_position' =
           StampAfter(outcome, timestamp_for_get_position, now)
    /\ callers' = [callers EXCEPT ![c] =
                     [IdleCaller EXCEPT
                        !.pc = "gp_done",
                        !.outcome = outcome,
                        !.result = Returned(Some(GetPositionResult(
                                       accounting.inventories, outcome)))]]
    /\ UNCHANGED <<venue, now, pc, call, frame, log, result>>
    /\ UNCHANGED <<accounting, marketdata>>

\* get_position() by caller c hands its result to the caller
GetPositionReturn(c) ==
    /\ callers[c].pc = "gp_done"
    /\ callers' = [callers EXCEPT ![c] = IdleCaller]
    /\ UNCHANGED <<venue, now, pc, call, frame, log, result>>
    /\ UNCHANGED <<timestamp_for_get_position, accounting, marketdata>>

---------------------------------------------------------------------------
(* Specifications *)

\* the order mutation engine over a book with one working order
Init == \E r \in WorkingRecords, t \in {T(10, 30, 0), T(13, 50, 0)} :
            Fresh(BookOf(r), t)

Next ==
    \/ \E order_id \in {1, 2}, price \in {None, Some(11)},
          quantity \in {None} \cup {Some(q) : q \in Floats \ {-FloatDen}},
          outcome \in Outcomes :
            UpdateOrderBegin(order_id, price, quantity, outcome)
    \/ \E outcome \in Outcomes : UpdateOrderPrice(outcome)
    \/ \E outcome \in Outcomes : UpdateOrderRecreate(outcome)
    \/ \E outcome \in Outcomes : UpdateOrderQty(outcome)
    \/ Return

Spec == Init /\ [][Next]_vars

\* the order builder, at the instants around the session windows
InitBuild ==
    Fresh(BookOf(OrderRecord(1, "Buy", "Stock", "Common", 10, LotSize, 0)),
          T(10, 30, 0))

NextBuild ==
    \/ Tick
    \/ \E intent \in Intents, outcome \in Outcomes : CreateOrder(intent, outcome)
    \/ Return

SpecBuild == InitBuild /\ [][NextBuild]_vars

\* the order normalizer over any broker record
InitNorm == \E r \in AnyRecords \cup PartLotRecords \cup MalformedRecords :
                Fresh(BookOf(r), T(10, 30, 0))

NextNorm ==
    \/ \E outcome \in Outcomes : GetOrders(outcome)
    \/ Return

SpecNorm == InitNorm /\ [][NextNorm]_vars

\* the order mutation engine with cancel_order, over a book with one working
\* cash order that may or may not be cancelled
InitMutate ==
    \E r \in WorkingRecords, can_cancel \in BOOLEAN :
        /\ r.buy_sell = "Buy"
        /\ r.order_type = "Stock"
        /\ Fresh(BookOf([r EXCEPT !.can_cancel = can_cancel]), T(10, 30, 0))

NextMutate ==
    \/ Next
    \/ \E order_id \in {1, 2}, lookup \in Outcomes, outcome \in Outcomes :
            CancelOrder(order_id, lookup, outcome)

SpecMutate == InitMutate /\ [][NextMutate]_vars

\* the outcomes of the two settlement queries of one call
WindowOutcomes == [{"3d", "0d"} -> Outcomes]

\* one caller's get_position, step by step
GetPosition(c) ==
    \/ GetPositionBegin(c)
    \/ GetPositionIssue(c)
    \/ \E outcome \in Outcomes : GetPositionReply(c, outcome)
    \/ GetPositionReturn(c)

\* the cooldown of get_position with a single caller, as time passes
InitCooldown ==
    /\ OrderSide(BookOf(OrderRecord(1, "Buy", "Stock", "Common", 10, LotSize, 0)),
                 T(10, 30, 0))
    /\ AccountSide([NoAccounting EXCEPT
                       !.inventories = <<Inventory("2330", "Stock", LotSize, None, None)>>],
                   NoQuotes, 1)

NextCooldown ==
    \/ Elapse
    \/ GetPosition(1)

SpecCooldown == InitCooldown /\ [][NextCooldown]_vars

\* get_position called from two threads on one account object, from 10:30:12
InitConcurrent ==
    /\ OrderSide(BookOf(OrderRecord(1, "Buy", "Stock", "Common", 10, LotSize, 0)),
                 T(10, 30, 12))
    /\ AccountSide([NoAccounting EXCEPT
                       !.inventories = <<Inventory("2330", "Stock", LotSize, None, None)>>],
                   NoQuotes, 2)

NextConcurrent ==
    \/ Elapse
    \/ GetPosition(1)
    \/ GetPosition(2)

SpecConcurrent == InitConcurrent /\ [][NextConcurrent]_vars

\* get_total_balance and get_position on one account object, the cash and
\* settlement queries of the balance succeeding
NextShared ==
    \/ Elapse
    \/ GetPosition(1)
    \/ \E inventory_outcome \in Outcomes :
            GetTotalBalance("ok", [w \in {"3d", "0d"} |-> "ok"], inventory_outcome)
    \/ Return

SpecShared == InitCooldown /\ [][NextShared]_vars

\* the position reader over the inventories of an account
InitPosition ==
    \E inventories \in InventoryLists :
        /\ OrderSide(BookOf(OrderRecord(1, "Buy", "Stock", "Common", 10, LotSize, 0)),
                     T(10, 30, 0))
        /\ AccountSide([NoAccounting EXCEPT !.inventories = inventories], NoQuotes, 1)

NextPosition == GetPosition(1)

SpecPosition == InitPosition /\ [][NextPosition]_vars

\* the read operations over the accounting data of an account
InitRead ==
    \E acc \in Accountings :
        /\ OrderSide(BookOf(OrderRecord(1, "Buy", "Stock", "Common", 10, LotSize, 0)),
                     T(10, 30, 0))
        /\ AccountSide(acc, NoQuotes, 1)

NextRead ==
    \/ \E outcome \in Outcomes : GetCash(outcome)
    \/ \E outcome \in Outcomes : GetOrders(outcome)
    \/ \E outcomes \in WindowOutcomes : GetSettlement(outcomes)
    \/ GetPosition(1)
    \/ Return

SpecRead == InitRead /\ [][NextRead]_vars

\* get_total_balance over the accounting data of an account
NextBalance ==
    \/ \E cash_outcome \in Outcomes, outcomes \in WindowOutcomes,
          inventory_outcome \in Outcomes :
            GetTotalBalance(cash_outcome, outcomes, inventory_outcome)
    \/ Return

SpecBalance == InitRead /\ [][NextBalance]_vars

\* the quote normalizer over any quote record
InitQuote ==
    \E quote \in Quotes :
        /\ OrderSide(BookOf(OrderRecord(1, "Buy", "Stock", "Common", 10, LotSize, 0)),
                     T(10, 30, 0))
        /\ AccountSide(NoAccounting, [id \in {"2330"} |-> quote], 1)

NextQuote ==
    \/ \E outcome \in Outcomes \ {"fail"} : GetStocks("2330", outcome)
    \/ Return

SpecQuote == InitQuote /\ [][NextQuote]_vars

---------------------------------------------------------------------------
(* Properties of update_order, checked under Spec *)

\* the positions of the log whose request is op
Positions(op) == {i \in DOMAIN log : log[i].op = op}

\* the positions of the log whose request is issued from site
SitePositions(site) == {i \in DOMAIN log : log[i].site = site}

\* an update_order call that found its order
FoundOrder == call.op = "update_order" /\ frame.order # None

\* the broker record of the order update_order found
OrgOrder == frame.order[1].org_order

\* update_order(order_id, price=p) on an odd-lot order has returned
OddLotPriceCallDone ==
    /\ pc = "done"
    /\ FoundOrder
    /\ call.price # None
    /\ call.quantity = None
    /\ IsOddLot(OrgOrder.market_type)

\* the venue answered the cancel step of the price mutation with success
CancelSucceeded ==
    \E i \in Positions("modify_quantity") :
        log[i].site = "price" /\ log[i].outcome = "ok"

\* C1 as stated: when update_order(order_id, price=p) on an odd-lot order
\* returns, at most one new order was placed and the original order's
\* remaining quantity at the venue is zero, whatever the venue answered.
C1_AlwaysCancelled ==
    OddLotPriceCallDone =>
        /\ Cardinality(Positions("place_order")) <= 1
        /\ Remaining(venue[call.order_id]) = 0

\* C1 amended: when update_order(order_id, price=p) on an odd-lot order
\* returns, at most one new order was placed, and the original order's
\* remaining quantity at the venue is zero if the venue answered the cancel
\* step with success; if it did not, no new order was placed.
C1_CancelledOnSuccess ==
    OddLotPriceCallDone =>
        /\ Cardinality(Positions("place_order")) <= 1
        /\ CancelSucceeded => Remaining(venue[call.order_id]) = 0
        /\ ~CancelSucceeded => Positions("place_order") = {}

\* an odd-lot order with an unfilled remainder was cancelled and re-created
C1_Witness ==
    /\ OddLotPriceCallDone
    /\ CancelSucceeded
    /\ UnfilledQty(OrgOrder) > 0
    /\ Cardinality(Positions("place_order")) = 1
    /\ Remaining(venue[call.order_id]) = 0

\* C2 as stated: the new-order request of an odd-lot price change carries
\* the new price and a native quantity equal to the unfilled remainder
\* r = after_qty - filled_qty of the original order.
C2_RecreatesRemainder ==
    \A i \in Positions("place_order") :
        log[i].site = "price" =>
            /\ log[i].order[1].price = call.price
            /\ log[i].order[1].quantity = OrgOrder.after_qty - OrgOrder.filled_qty

\* the requested quantity q (a float) in native units: x 1000 for a whole-lot
\* order, x 1 for an odd-lot order, the fraction of a unit dropped
RequestedNative(q, record) ==
    LET scaled == IF record.market_type \in OddLotMarkets THEN q ELSE q * 1000
    IN  CHOOSE n \in 0 .. (scaled \div FloatDen) + 1 :
            n * FloatDen <= scaled /\ scaled < (n + 1) * FloatDen

\* C3: every quantity-modify request of the quantity mutation carries the
\* requested quantity in native units plus the filled native quantity of the
\* order, and so never the requested quantity alone when some is filled.
C3_TotalIncludesFilled ==
    \A i \in Positions("modify_quantity") :
        log[i].site = "qty" =>
            LET rec == log[i].record[1]
                req == RequestedNative(call.quantity[1], rec)
            IN  /\ log[i].value = Some(req + rec.filled_qty)
                /\ rec.filled_qty > 0 => log[i].value # Some(req)

\* a quantity change of a partly filled order was sent
C3_Witness ==
    \E i \in Positions("modify_quantity") :
        /\ log[i].site = "qty"
        /\ log[i].record[1].filled_qty > 0
        /\ call.quantity[1] >= FloatDen
        /\ log[i].value[1] > log[i].record[1].filled_qty

\* update_order with a price is past the price mutation of a whole-lot order
WholeLotPriceDone ==
    /\ FoundOrder
    /\ call.price # None
    /\ ~(OrgOrder.market_type \in OddLotMarkets)
    /\ pc \in {"uo_qty", "done"}

\* C4: the price mutation of a whole-lot order issues exactly one request, a
\* price-modify built from the order's original broker record with the new
\* price; the call issues no new-order request, and no quantity-modify other
\* than the one of a quantity mutation the caller asked for.
C4_WholeLotDirectModify ==
    WholeLotPriceDone =>
        /\ Cardinality(SitePositions("price")) = 1
        /\ \A i \in SitePositions("price") :
              /\ log[i].op = "modify_price"
              /\ log[i].record = Some(OrgOrder)
              /\ OrgOrder.order_no = call.order_id
              /\ log[i].value = call.price
        /\ Positions("place_order") = {}
        /\ \A i \in Positions("modify_quantity") :
              log[i].site = "qty" /\ call.quantity # None
        /\ call.quantity = None => Len(log) = 2

\* the price of a whole-lot order was changed in place
C4_Witness ==
    /\ WholeLotPriceDone
    /\ pc = "done"
    /\ \E i \in Positions("modify_price") : log[i].outcome = "ok"
    /\ venue[call.order_id].price = call.price

\* C5: in a call with both a price and a quantity, every request of the price
\* mutation is issued before the quantity-modify of the quantity mutation.
C5_PriceBeforeQuantity ==
    \A i \in SitePositions("price"), j \in SitePositions("qty") : i < j

\* a cancel, a re-create and then a quantity-modify were issued in one call
C5_Witness ==
    /\ pc = "done"
    /\ Positions("place_order") # {}
    /\ SitePositions("qty") # {}
    /\ Cardinality(SitePositions("price")) = 2

---------------------------------------------------------------------------
(* Properties of create_order, checked under SpecBuild *)

\* a create_order call has ended
CreateDone == pc = "done" /\ call.op = "create_order"

\* a create_order call has built and sent its request
CreateSent == CreateDone /\ result.state = "returned"

\* the FBOrder of the request a create_order call sent
SentOrder == log[1].order[1]

\* C6: create_order with quantity <= 0 raises to the caller and has issued
\* no venue request.
C6_InvalidQuantityRaises ==
    (CreateDone /\ call.quantity[1] <= 0) =>
        /\ result.state = "raised"
        /\ log = <<>>

\* create_order(quantity = 0) has raised
C6_Witness ==
    /\ CreateDone
    /\ call.quantity = Some(0)
    /\ result.state = "raised"

\* C7: the price type is LimitUp (Buy) / LimitDown (Sell) when only
\* market_order is set, LimitDown (Buy) / LimitUp (Sell) when best_price_limit
\* is set, also together with market_order, and Limit at the supplied price
\* when neither is set; the price is cleared whenever a flag is set.
C7_PriceTypeTable ==
    CreateSent =>
        LET buy == call.action = "BUY" IN
        /\ Len(log) = 1
        /\ SentOrder.price_type =
              IF call.best_price_limit
              THEN (IF buy THEN "LimitDown" ELSE "LimitUp")
              ELSE IF call.market_order
              THEN (IF buy THEN "LimitUp" ELSE "LimitDown")
              ELSE "Limit"
        /\ SentOrder.price =
              IF call.best_price_limit \/ call.market_order
              THEN None ELSE call.price

\* a Buy with both flags set was sent as LimitDown without a price
C7_Witness ==
    /\ CreateSent
    /\ call.action = "BUY"
    /\ call.best_price_limit
    /\ call.market_order
    /\ call.price # None
    /\ SentOrder.price_type = "LimitDown"
    /\ SentOrder.price = None

\* C8 as stated: at every instant now (to the second) the session of a created
\* order is Odd if fractional and 13:40 < now < 14:30, Fixing if not
\* fractional and 14:00 < now < 14:30, and else IntradayOdd if fractional and
\* Common if not.
C8_SessionBySecond ==
    CreateSent =>
        SentOrder.market_type =
            IF call.odd_lot /\ T(13, 40, 0) < now /\ now < T(14, 30, 0)
            THEN "Odd"
            ELSE IF ~call.odd_lot /\ T(14, 0, 0) < now /\ now < T(14, 30, 0)
            THEN "Fixing"
            ELSE IF call.odd_lot THEN "IntradayOdd" ELSE "Common"

\* C9: an order created at an instant equal to a boundary of its window
\* (13:40:00 or 14:30:00 if fractional, 14:00:00 or 14:30:00 if not) gets the
\* default session, IntradayOdd respectively Common.
C9_BoundaryIsDefault ==
    CreateSent =>
        /\ (call.odd_lot /\ now \in {T(13, 40, 0), T(14, 30, 0)})
              => SentOrder.market_type = "IntradayOdd"
        /\ (~call.odd_lot /\ now \in {T(14, 0, 0), T(14, 30, 0)})
              => SentOrder.market_type = "Common"

\* a fractional order was created at 13:40:00 sharp
C9_Witness ==
    /\ CreateSent
    /\ call.odd_lot
    /\ now = T(13, 40, 0)
    /\ SentOrder.market_type = "IntradayOdd"

---------------------------------------------------------------------------
(* Properties of the order normalizer, checked under SpecNorm *)

\* the map a get_orders call returned
ReturnedOrders == result.value[1]

\* a get_orders call has returned
GetOrdersDone == pc = "done" /\ call.op = "get_orders"

\* C10: the status of a normalized order is CANCEL if the broker's code is 30
\* or 90; else PARTIALLY_FILLED if 0 < filled_qty < total_qty, whatever the
\* code; else FILLED for code 50 and NEW for code 10 and any other code.
C10_StatusMapping ==
    GetOrdersDone =>
        \A n \in DOMAIN ReturnedOrders :
            LET o == venue[n] IN
            ReturnedOrders[n].status =
                IF o.status \in {30, 90} THEN "CANCEL"
                ELSE IF 0 < o.filled_qty /\ o.filled_qty < o.after_qty
                THEN "PARTIALLY_FILLED"
                ELSE IF o.status = 50 THEN "FILLED"
                ELSE "NEW"

\* a partly filled order the broker reports with code 50 was normalized
C10_Witness ==
    /\ GetOrdersDone
    /\ \E n \in DOMAIN ReturnedOrders :
          /\ venue[n].status = 50
          /\ 0 < venue[n].filled_qty
          /\ venue[n].filled_qty < venue[n].after_qty
          /\ ReturnedOrders[n].status = "PARTIALLY_FILLED"

C19_MalformedDefaulted ==
    (GetOrdersDone /\ log[1].outcome = "ok") =>
        \A n \in DOMAIN venue :
            /\ n \in DOMAIN ReturnedOrders
            /\ "price" \in venue[n].malformed => ReturnedOrders[n].price = 0
            /\ "after_qty" \in venue[n].malformed => ReturnedOrders[n].quantity = 0
            /\ "filled_qty" \in venue[n].malformed =>
                   ReturnedOrders[n].filled_quantity = 0

\* C20: every normalized order whose status is FILLED has
\* 0 <= filled_quantity <= quantity, for every record the normalizer accepts.
C20_FilledWithinQuantity ==
    GetOrdersDone =>
        \A n \in DOMAIN ReturnedOrders :
            ReturnedOrders[n].status = "FILLED" =>
                /\ 0 <= ReturnedOrders[n].filled_quantity
                /\ ReturnedOrders[n].filled_quantity <= ReturnedOrders[n].quantity

---------------------------------------------------------------------------
(* Properties of get_position, checked under SpecCooldown and SpecPosition *)

\* C12: with a single caller, the position query of a get_position call is
\* never issued earlier than 10 seconds after the timestamp the previous
\* get_position call recorded; a call made sooner blocks for the rest of the
\* interval before it queries.
C12_CooldownRespected ==
    \A c \in DOMAIN callers :
        callers[c].pc = "gp_query" =>
            callers[c].issued >= timestamp_for_get_position + 10

\* a call that began less than 10 seconds after the previous one's timestamp
\* has blocked, and its query is out exactly 10 seconds after that timestamp
C12_Witness ==
    /\ callers[1].pc = "gp_query"
    /\ timestamp_for_get_position # Epoch
    /\ callers[1].started < timestamp_for_get_position + 10
    /\ callers[1].wake > callers[1].started
    /\ callers[1].issued = timestamp_for_get_position + 10

\* a get_position call of caller 1 has returned after a successful query
PositionDone == callers[1].pc = "gp_done" /\ callers[1].outcome = "ok"

\* the positions get_position returned to caller 1
ReturnedPositions == callers[1].result.value[1]

\* the entries of the returned positions for the instrument of a record
EntriesOf(r) ==
    {k \in DOMAIN ReturnedPositions : ReturnedPositions[k].stock_id = r.stock_no}

\* the record holds whole lots; it holds an odd-lot part
HasWhole(r) == r.today_qty > 0
HasOdd(r) == r.odd # None /\ r.odd[1] > 0

\* C15: an inventory record with a positive whole-lot quantity and a positive
\* fractional quantity is reported as two separate entries of its instrument,
\* one per quantity, and every reported quantity is negative exactly when the
\* record's trading condition is short-sale, positive otherwise.
C15_TwoEntriesSigned ==
    PositionDone =>
        \A i \in DOMAIN accounting.inventories :
            LET r == accounting.inventories[i] IN
            /\ (HasWhole(r) /\ HasOdd(r)) =>
                  /\ Cardinality(EntriesOf(r)) = 2
                  /\ \E k1, k2 \in EntriesOf(r) :
                        /\ k1 # k2
                        /\ ReturnedPositions[k1].quantity * 1000
                               \in {r.today_qty * FloatDen, -(r.today_qty * FloatDen)}
                        /\ ReturnedPositions[k2].quantity * 1000
                               \in {r.odd[1] * FloatDen, -(r.odd[1] * FloatDen)}
            /\ \A k \in EntriesOf(r) :
                  IF r.order_type = "Short"
                  THEN ReturnedPositions[k].quantity < 0
                  ELSE ReturnedPositions[k].quantity > 0

\* a short holding of whole lots and an odd-lot part was reported as two
\* negative entries
C15_Witness ==
    /\ PositionDone
    /\ \E i \in DOMAIN accounting.inventories :
          LET r == accounting.inventories[i] IN
          /\ r.order_type = "Short"
          /\ HasWhole(r) /\ HasOdd(r)
          /\ Cardinality(EntriesOf(r)) = 2
          /\ \A k \in EntriesOf(r) : ReturnedPositions[k].quantity < 0

\* C16: an inventory record contributes no position entry if and only if it
\* has neither a positive whole-lot quantity nor a positive fractional
\* quantity; a record with zero whole lots and a positive fractional quantity
\* still contributes its fractional entry.
C16_NoEntryIffNothingHeld ==
    PositionDone =>
        \A i \in DOMAIN accounting.inventories :
            LET r == accounting.inventories[i] IN
            (EntriesOf(r) = {}) <=> (~HasWhole(r) /\ ~HasOdd(r))

---------------------------------------------------------------------------
(* Properties of update_order and cancel_order, checked under SpecMutate *)

\* C13: update_order and cancel_order never raise to the caller, whatever
\* the venue answers (non-success, no response, a thrown fault) to the order
\* query, the cancel, the modify or the re-create.
C13_MutationsNeverRaise ==
    call.op \in {"update_order", "cancel_order"} => result.state # "raised"

\* a cancel_order call whose cancel request the venue answered with a thrown
\* fault has returned
C13_Witness ==
    /\ pc = "done"
    /\ call.op = "cancel_order"
    /\ \E i \in DOMAIN log : log[i].op = "cancel_order" /\ log[i].outcome = "raise"
    /\ result = Returned(None)

---------------------------------------------------------------------------
(* Properties of the read operations, checked under SpecRead, SpecBalance  *)
(* and SpecQuote                                                           *)

\* a call of the read operation op has returned or raised
ReadDone(op) == pc = "done" /\ call.op = op

\* some venue request of the current call raised or was not answered with
\* success
SomeQueryFailed == \E i \in DOMAIN log : log[i].outcome # "ok"

\* a get_position call of caller 1 has ended after the query failed
PositionFailed == callers[1].pc = "gp_done" /\ callers[1].outcome # "ok"

\* C14 as stated: whenever a venue call of get_cash, get_orders, get_position
\* or get_settlement raises or is not answered with success, the operation
\* raises nothing and returns its safe default: 0, the empty map, the empty
\* position set, 0.
C14_DefaultOnAnyFailure ==
    /\ (ReadDone("get_cash") /\ SomeQueryFailed) => result = Returned(Some(0))
    /\ (ReadDone("get_orders") /\ SomeQueryFailed) =>
           result.state = "returned" /\ DOMAIN ReturnedOrders = {}
    /\ (ReadDone("get_settlement") /\ SomeQueryFailed) => result = Returned(Some(0))
    /\ PositionFailed => callers[1].result = Returned(Some(<<>>))

\* the amount on record for the settlement window the i-th request of the
\* current call asked for, if that request was answered with success
AnsweredAmount(i) ==
    IF log[i].outcome = "ok" /\ accounting.settlement[log[i].value[1]] # None
    THEN SumDetails(accounting.settlement[log[i].value[1]][1])
    ELSE 0

\* C14, amended: get_cash, get_orders and get_position raise nothing and
\* return their safe default (0, the empty map, the empty position set)
\* whenever their venue call raises or is not answered with success;
\* get_settlement raises nothing and returns the sum over those of its two
\* window queries that were answered with success, which is 0 when both fail.
C14_DefaultPerQuery ==
    /\ (ReadDone("get_cash") /\ SomeQueryFailed) => result = Returned(Some(0))
    /\ (ReadDone("get_orders") /\ SomeQueryFailed) =>
           result.state = "returned" /\ DOMAIN ReturnedOrders = {}
    /\ ReadDone("get_settlement") =>
           /\ result = Returned(Some(AnsweredAmount(1) + AnsweredAmount(2)))
           /\ (\A i \in DOMAIN log : log[i].outcome # "ok") => result = Returned(Some(0))
    /\ PositionFailed => callers[1].result = Returned(Some(<<>>))

\* get_settlement has returned the amount of the current day's window after
\* the query of the three-day window failed
C14_Witness ==
    /\ ReadDone("get_settlement")
    /\ log[1].value = Some("3d") /\ log[1].outcome = "fail"
    /\ log[2].value = Some("0d") /\ log[2].outcome = "ok"
    /\ result = Returned(Some(20))

\* the cash and the settlements the current get_total_balance call fetched:
\* the amounts on record for the queries answered with success
FetchedCash ==
    IF log[1].outcome = "ok" /\ accounting.bank_remain # None
    THEN accounting.bank_remain[1] ELSE 0

FetchedSettlements == AnsweredAmount(2) + AnsweredAmount(3)

\* the market-value, margin and short terms of the balance of the account's
\* one holding
HoldingTerms ==
    LET r  == accounting.inventories[1]
        mv == IF r.market_value # None THEN r.market_value[1]
              ELSE r.today_qty * r.price
    IN  IF r.order_type = "Margin" THEN mv - r.margin_amount
        ELSE IF r.order_type = "Short"
        THEN r.short_collateral + r.guarantee_amount - mv
        ELSE mv

\* C17 as stated: if any sub-fetch of get_total_balance fails (cash,
\* settlement or inventory query), the call does not raise and returns
\* cash + settlement with no market-value, margin or short terms.
C17_DegradedOnAnyFailure ==
    (ReadDone("get_total_balance") /\ SomeQueryFailed) =>
        result = Returned(Some(FetchedCash + FetchedSettlements))

\* C17, amended: get_total_balance never raises; if its inventory query
\* fails, it returns cash + settlement with no market-value, margin or short
\* terms; if the inventory query succeeds, these terms are included, and a
\* cash or settlement query that failed contributes 0 for its own term.
C17_DegradedOnInventoryFailure ==
    ReadDone("get_total_balance") =>
        IF log[4].outcome # "ok"
        THEN result = Returned(Some(FetchedCash + FetchedSettlements))
        ELSE result = Returned(Some(FetchedCash + FetchedSettlements + HoldingTerms))

\* get_total_balance has returned the degraded balance, settlements
\* included, after the inventory query failed
C17_Witness ==
    /\ ReadDone("get_total_balance")
    /\ log[4].op = "inventories" /\ log[4].outcome = "raise"
    /\ FetchedCash > 0
    /\ FetchedSettlements # 0
    /\ result = Returned(Some(FetchedCash + FetchedSettlements))

\* the quote the market data service holds for the requested instrument
AskedQuote == marketdata[call.stock_id]

\* the quote carries no instrument id, no price field and no bid or ask
MissingAll(quote) ==
    /\ quote.symbol = None
    /\ \A f \in {"open_price", "high_price", "low_price", "close_price",
                 "openPrice", "highPrice", "lowPrice", "closePrice",
                 "lastPrice"} : quote[f] = None
    /\ quote.bids = <<>>
    /\ quote.asks = <<>>

\* C18: a quote record (key-value map or object) that is missing all price
\* fields and the instrument id is normalized, without raising, to a quote
\* whose open, high, low and close, best bid and ask price and size are zero
\* and whose id is the fallback id supplied.
C18_EmptyQuoteZeroed ==
    (ReadDone("get_stocks") /\ log[1].outcome = "ok" /\ MissingAll(AskedQuote)) =>
        /\ result.state = "returned"
        /\ call.stock_id \in DOMAIN result.value[1]
        /\ result.value[1][call.stock_id] =
               [ stock_id |-> call.stock_id, open |-> 0, high |-> 0, low |-> 0,
                 close |-> 0, bid_price |-> 0, ask_price |-> 0,
                 bid_volume |-> 0, ask_volume |-> 0 ]

\* an object without any attribute was normalized to the zero quote of the
\* requested instrument
C18_Witness ==
    /\ ReadDone("get_stocks")
    /\ log[1].outcome = "ok"
    /\ AskedQuote.kind = "object"
    /\ MissingAll(AskedQuote)
    /\ result.value[1][call.stock_id].stock_id = "2330"
    /\ result.value[1][call.stock_id].close = 0

----------------------------------------------------------------------------
(* update_order and create_order: the two axes, the re-created order *)

\* a finished update_order call that found its order and was given both a
\* price and a quantity
BothAxesDone ==
    /\ pc = "done"
    /\ FoundOrder
    /\ call.price # None
    /\ call.quantity # None

\* C21: when update_order is given both a price and a quantity for an order
\* it found, a quantity modification is issued whatever became of the price
\* mutation, also when the cancel step of an odd-lot order was refused or
\* raised.
C21_QuantityWhateverPriceOutcome ==
    BothAxesDone => \E i \in Positions("modify_quantity") : log[i].site = "qty"

\* a finished update_order call on an odd-lot order, with both axes, whose
\* cancel step succeeded and whose remainder was placed anew
RecreatedBothAxes ==
    /\ BothAxesDone
    /\ IsOddLot(OrgOrder.market_type)
    /\ CancelSucceeded
    /\ \E i \in Positions("place_order") : log[i].site = "price"

\* C22: when both axes change on an odd-lot order and the cancel-and-recreate
\* went through, no quantity modification with a non-zero total is sent for
\* the original record after it was cancelled.
C22_NoModifyOfCancelledOriginal ==
    RecreatedBothAxes =>
        \A i \in Positions("modify_quantity") :
            (log[i].site = "qty" /\ log[i].record[1].order_no = call.order_id)
                => log[i].value = Some(0)

\* the positions of the log at which the odd-lot branch asked for the
\* modify-to-zero of the original
CancelSteps ==
    {i \in Positions("modify_quantity") : log[i].site = "price"}

\* the positions of the log at which the odd-lot branch placed the new order
RecreateSteps ==
    {i \in Positions("place_order") : log[i].site = "price"}

\* C27: in the cancel-and-recreate of update_order, the new order is placed
\* only after the venue answered the modify-to-zero of the original with
\* success; when that step is refused, answers nothing or raises, no new
\* order is placed.
C27_RecreateOnlyAfterCancel ==
    call.op = "update_order" =>
        /\ \A i \in RecreateSteps :
               \E j \in CancelSteps : j < i /\ log[j].outcome = "ok"
        /\ (\E j \in CancelSteps : log[j].outcome # "ok") => RecreateSteps = {}

\* C27 witnesses: a new order placed after an accepted cancel, and a refused
\* cancel after which the call ended
C27_Witness ==
    /\ pc = "done"
    /\ call.op = "update_order"
    /\ \E i \in RecreateSteps : \E j \in CancelSteps : j < i /\ log[j].outcome = "ok"

\* C28: the order placed anew by the cancel-and-recreate has the side, the
\* instrument and the trading condition of the original.
C28_RecreatedKeepsCondition ==
    call.op = "update_order" =>
        \A i \in RecreateSteps :
            /\ log[i].order[1].buy_sell = OrgOrder.buy_sell
            /\ log[i].order[1].symbol = OrgOrder.stock_no
            /\ log[i].order[1].order_type = OrgOrder.order_type

\* C26: every new-order request create_order sends has a native quantity of
\* at least 1.
C26_SentQuantityAtLeastOne ==
    CreateSent => SentOrder.quantity >= 1

\* a mutation call whose order id is not in the snapshot it took
AbsentFromSnapshot ==
    /\ call.op \in {"update_order", "cancel_order"}
    /\ \/ call.order_id \notin DOMAIN venue
       \/ log[1].outcome # "ok"

\* C29: update_order and cancel_order called with an order id that is not in
\* the snapshot, also when the snapshot query failed, issue no mutating
\* request: the query is all they send.
C29_AbsentOrderUntouched ==
    AbsentFromSnapshot => \A i \in DOMAIN log : log[i].op = "get_order_results"

\* C29 witness: a call on an order the venue has, ended after a failed
\* snapshot query
C29_Witness ==
    /\ pc = "done"
    /\ AbsentFromSnapshot
    /\ call.order_id \in DOMAIN venue
    /\ Len(log) = 1

----------------------------------------------------------------------------
(* The unit of a reported position, checked under SpecPosition *)

\* the native quantities of an inventory record: its whole-lot shares and,
\* when it has one, its odd-lot shares
NativeQuantities(r) ==
    {r.today_qty} \cup (IF HasOdd(r) THEN {r.odd[1]} ELSE {})

\* C23 as stated: positions use the divisors of orders, so the odd-lot
\* part of a holding is reported as its native quantity divided by 1 and the
\* whole-lot part as its native quantity divided by 1000.
C23_OrderDivisors ==
    PositionDone =>
        \A i \in DOMAIN accounting.inventories :
            LET r == accounting.inventories[i] IN
            (HasWhole(r) /\ HasOdd(r)) =>
                /\ \E k \in EntriesOf(r) :
                       ReturnedPositions[k].quantity
                           \in {r.odd[1] * FloatDen, -(r.odd[1] * FloatDen)}
                /\ \E k \in EntriesOf(r) :
                       ReturnedPositions[k].quantity * LotSize
                           \in {r.today_qty * FloatDen, -(r.today_qty * FloatDen)}

\* C23 amended: every reported position quantity, of the whole-lot part and
\* of the odd-lot part alike, is a native quantity of its inventory record
\* divided by 1000 (signed); a holding with both parts reports its odd-lot
\* shares / 1000 and its whole-lot shares / 1000.
C23_PositionsInLots ==
    PositionDone =>
        /\ \A k \in DOMAIN ReturnedPositions :
               \E i \in DOMAIN accounting.inventories :
                   LET r == accounting.inventories[i] IN
                   /\ r.stock_no = ReturnedPositions[k].stock_id
                   /\ \E q \in NativeQuantities(r) :
                          ReturnedPositions[k].quantity * LotSize
                              \in {q * FloatDen, -(q * FloatDen)}
        /\ \A i \in DOMAIN accounting.inventories :
               LET r == accounting.inventories[i] IN
               (HasWhole(r) /\ HasOdd(r)) =>
                   \A q \in NativeQuantities(r) :
                       \E k \in EntriesOf(r) :
                           ReturnedPositions[k].quantity * LotSize
                               \in {q * FloatDen, -(q * FloatDen)}

\* C23 witness: an odd-lot part of 500 shares held next to whole lots was
\* reported as half a lot
C23_Witness ==
    /\ PositionDone
    /\ \E i \in DOMAIN accounting.inventories :
          LET r == accounting.inventories[i] IN
          /\ HasWhole(r) /\ HasOdd(r)
          /\ r.odd[1] = 500
          /\ \E k \in EntriesOf(r) : ReturnedPositions[k].quantity * 2 = FloatDen

----------------------------------------------------------------------------
(* The cooldown of get_position: concurrent callers, the timestamp *)

\* C24: the cooldown check is made by each caller on the timestamp it read,
\* and nothing holds the timestamp between the check and the query: every
\* query is issued at least 10 seconds after the timestamp its caller read,
\* yet two callers can have their queries out less than 10 seconds apart.
C24_CheckedAgainstTimestampRead ==
    \A c \in DOMAIN callers :
        callers[c].pc = "gp_query" =>
            /\ callers[c].issued >= callers[c].seen + CooldownSeconds
            /\ callers[c].issued >= callers[c].wake

\* C24 witness: both callers read the same timestamp and both position
\* queries are out at once, less than 10 seconds apart
C24_Witness ==
    /\ callers[1].pc = "gp_query"
    /\ callers[2].pc = "gp_query"
    /\ callers[1].seen = callers[2].seen
    /\ callers[1].seen # Epoch
    /\ callers[1].issued - callers[2].issued < CooldownSeconds
    /\ callers[2].issued - callers[1].issued < CooldownSeconds

\* caller c receives the venue's answer to its position query in this step
Replied(c) == callers[c].pc = "gp_query" /\ callers'[c].pc = "gp_done"

\* C25 as stated: the timestamp advances only when the position query
\* succeeds; a query that returns non-success or raises leaves it unchanged.
C25_StampOnlyOnSuccess ==
    [][\A c \in DOMAIN callers :
          (Replied(c) /\ callers'[c].outcome # "ok") =>
              timestamp_for_get_position' = timestamp_for_get_position]_vars

\* C25 amended: the timestamp is set to the current time whenever the
\* position query returns, with success, non-success or no response; it
\* is left unchanged when the query raises, and by every other step.
C25_StampOnAnyAnswer ==
    [][/\ \A c \in DOMAIN callers :
             Replied(c) =>
                 timestamp_for_get_position' =
                     IF callers'[c].outcome = "raise"
                     THEN timestamp_for_get_position ELSE now
       /\ (\A c \in DOMAIN callers : ~Replied(c)) =>
             timestamp_for_get_position' = timestamp_for_get_position]_vars

\* C25 witness: a refused position query has set the timestamp
C25_Witness ==
    /\ callers[1].pc = "gp_done"
    /\ callers[1].outcome = "fail"
    /\ timestamp_for_get_position = now
    /\ timestamp_for_get_position # Epoch

\* get_total_balance runs in this step
BalanceRuns == pc = "idle" /\ pc' = "done" /\ call'.op = "get_total_balance"

\* C30: get_total_balance sends its inventory query without consulting the
\* cooldown and leaves the timestamp unchanged: it runs at the instant it is
\* called, its last request is the inventory query, and the timestamp a
\* later get_position checks is the one get_position recorded.
C30_BalanceOutsideCooldown ==
    [][BalanceRuns =>
          /\ timestamp_for_get_position' = timestamp_for_get_position
          /\ now' = now
          /\ log'[Len(log')].op = "inventories"]_vars

\* C30 witness: get_total_balance has sent its inventory query less than 10
\* seconds after a get_position recorded the timestamp
C30_Witness ==
    /\ ReadDone("get_total_balance")
    /\ log[Len(log)].op = "inventories"
    /\ timestamp_for_get_position # Epoch
    /\ now < timestamp_for_get_position + CooldownSeconds

=============================================================================
